---- MODULE Spec2Model ----
(***************************************************************************)
(* Option_Pricing_Program.py: Black-Scholes pricing of European options,   *)
(* CRR binomial pricing of American options, the interactive input loop    *)
(* and main's dispatch.                                                    *)
(*                                                                         *)
(* Real numbers are fixed-point integers: the real x is the integer        *)
(* round(x * Scale).  Every arithmetic operation rounds to the nearest     *)
(* unit, as a double rounds to the nearest representable value.            *)
(***************************************************************************)
EXTENDS Integers, Sequences, FiniteSets, TLC

VARIABLES
    pc,           \* control point of the program
    S, K, T, r, y, sigma,      \* locals of get_user_input and of main
    assigned,     \* the names among S, K, T, r, y, sigma that are bound
    option_type, call_put,     \* the two selectors
    entry,        \* the line input() returned last
    out,          \* the line print() wrote last
    obj,          \* the pricer object
    constructed,  \* pricer objects constructed so far
    calls,        \* calculate_option_price calls so far
    i,            \* step whose node values the list holds
    values,       \* call_values or put_values, indexed from 0
    prev,         \* the list that values was computed from
    visited,      \* values the loop variable has taken, in order
    price,        \* what calculate_option_price returned last
    results,      \* first price returned, per class
    error         \* the exception that ended the program, or "none"

vars == <<pc, S, K, T, r, y, sigma, assigned, option_type, call_put, entry, out,
          obj, constructed, calls, i, values, prev, visited, price, results, error>>

locals == <<S, K, T, r, y, sigma, assigned, option_type, call_put>>

lattice == <<i, values, prev, visited>>

\* Resolution of the fixed-point reals: one unit is 1/Scale.
Scale == 10 ^ 4

\* Largest lattice depth num_steps the model explores.
MaxSteps == 3

\* Largest number of calculate_option_price calls on one parameter set.
MaxCalls == 2

\* Trading days per year, the factor of int(self.T * 252).
TradingDays == 252

Abs(a) == IF a < 0 THEN -a ELSE a

Max(a, b) == IF a >= b THEN a ELSE b

\* a * b of two reals (b of magnitude below 20), rounded to the nearest unit.
Mul(a, b) ==
    LET q  == a \div Scale
        rm == a % Scale
    IN  q * b + ((rm * b + Scale \div 2) \div Scale)

\* a / n of a real by a positive integer, rounded to the nearest unit.
DivInt(a, n) == (2 * a + n) \div (2 * n)

\* a / b of two reals, b # 0, rounded to the nearest unit.
Div(a, b) ==
    IF b > 0 THEN (a * Scale + b \div 2) \div b
             ELSE ((-a) * Scale + (-b) \div 2) \div (-b)

RECURSIVE SqrtSearch(_, _, _)
SqrtSearch(n, lo, hi) ==
    IF lo >= hi THEN lo
    ELSE LET mid == (lo + hi + 1) \div 2
         IN  IF mid * mid <= n THEN SqrtSearch(n, mid, hi)
                               ELSE SqrtSearch(n, lo, mid - 1)

\* math.sqrt(x), x >= 0.
Sqrt(x) ==
    LET n == x * Scale
        s == SqrtSearch(n, 0, 46340)
    IN  IF n - s * s > s THEN s + 1 ELSE s

RECURSIVE ExpSum(_, _, _)
ExpSum(x, term, k) ==
    IF term = 0 \/ k > 30 THEN 0
    ELSE term + ExpSum(x, DivInt(Mul(term, x), k), k + 1)

\* math.exp(x), by its power series.
Exp(x) == ExpSum(x, Scale, 1)

RECURSIVE LogSum(_, _, _)
LogSum(z2, pw, k) ==
    IF pw = 0 \/ k > 60 THEN 0
    ELSE DivInt(pw, k) + LogSum(z2, Mul(pw, z2), k + 2)

\* math.log(x), x > 0, by the series 2 * atanh((x - 1) / (x + 1)).
Log(x) ==
    LET z == Div(x - Scale, x + Scale)
    IN  2 * LogSum(Mul(z, z), z, 1)

RECURSIVE ErfSum(_, _, _)
ErfSum(z2, term, n) ==
    IF term = 0 \/ n > 60 THEN 0
    ELSE DivInt(term, 2 * n + 1) + ErfSum(z2, -DivInt(Mul(term, z2), n + 1), n + 1)

\* math.erf(z), by its Maclaurin series; beyond |z| = 3 it is +-1 to the
\* model's resolution.
Erf(z) ==
    IF z >= 3 * Scale THEN Scale
    ELSE IF z <= -3 * Scale THEN -Scale
    ELSE LET e == Mul(ErfSum(Mul(z, z), z, 0), Div(2 * Scale, Sqrt(31416)))
         IN  IF e > Scale THEN Scale ELSE IF e < -Scale THEN -Scale ELSE e

RECURSIVE Pow(_, _)
\* b ** n for an integer n >= 0.
Pow(b, n) == IF n = 0 THEN Scale ELSE Mul(Pow(b, n - 1), b)

(***************************************************************************)
(* The Option classes.  An object is a record of its class and its six     *)
(* fields.                                                                 *)
(***************************************************************************)
European == {"EuropeanCallOption", "EuropeanPutOption"}

American == {"AmericanCallOption", "AmericanPutOption"}

Classes == European \cup American

\* Option.__init__, run by the constructor of each concrete class.
Option(cls, s0, k0, t0, r0, y0, sg0) ==
    [cls |-> cls, S |-> s0, K |-> k0, T |-> t0, r |-> r0, y |-> y0, sigma |-> sg0]

NoObject == [cls |-> "none", S |-> 0, K |-> 0, T |-> 0, r |-> 0, y |-> 0, sigma |-> 0]

Fields(o) == <<o.S, o.K, o.T, o.r, o.y, o.sigma>>

(***************************************************************************)
(* Black-Scholes.                                                          *)
(***************************************************************************)
d1(o) ==
    Div(Log(Div(o.S, o.K))
          + Mul(o.r - o.y + Mul(Scale \div 2, Mul(o.sigma, o.sigma)), o.T),
        Mul(o.sigma, Sqrt(o.T)))

d2(o) == d1(o) - Mul(o.sigma, Sqrt(o.T))

\* 0.5 * (1 + math.erf(x / math.sqrt(2)))
N_plus(x) == Mul(Scale \div 2, Scale + Erf(Div(x, Sqrt(2 * Scale))))

\* 0.5 * (1 - math.erf(x / math.sqrt(2)))
N_minus(x) == Mul(Scale \div 2, Scale - Erf(Div(x, Sqrt(2 * Scale))))

EuropeanCallOption_calculate_option_price(o) ==
    LET N_d1 == N_plus(d1(o))
        N_d2 == N_plus(d2(o))
    IN  Mul(Mul(o.S, Exp(Mul(-o.y, o.T))), N_d1)
          - Mul(Mul(o.K, Exp(Mul(-o.r, o.T))), N_d2)

\* Mutant: the put takes N(-d1) where it needs N(-d2).
EuropeanPutOption_reuses_d1(o) ==
    LET N_minus_d1 == N_minus(d1(o))
        N_minus_d2 == N_minus(d1(o))
    IN  Mul(Mul(o.K, Exp(Mul(-o.r, o.T))), N_minus_d2)
          - Mul(Mul(o.S, Exp(Mul(-o.y, o.T))), N_minus_d1)

EuropeanPutOption_calculate_option_price(o) ==
    LET N_minus_d1 == N_minus(d1(o))
        N_minus_d2 == N_minus(d2(o))
    IN  Mul(Mul(o.K, Exp(Mul(-o.r, o.T))), N_minus_d2)
          - Mul(Mul(o.S, Exp(Mul(-o.y, o.T))), N_minus_d1)

(***************************************************************************)
(* CRR binomial lattice.                                                   *)
(***************************************************************************)
\* int(self.T * 252)
num_steps(o) == (o.T * TradingDays) \div Scale

\* self.T / num_steps, num_steps # 0
dt(o) == DivInt(o.T, num_steps(o))

u(o) == Exp(Mul(o.r - o.y, dt(o)) + Mul(o.sigma, Sqrt(dt(o))))

d(o) == Div(Scale, u(o))

\* The local r of calculate_option_price: math.exp((self.r - self.y) * dt)
r_local(o) == Exp(Mul(o.r - o.y, dt(o)))

\* (r - d) / (u - d), u # d
p(o) == Div(r_local(o) - d(o), u(o) - d(o))

\* math.exp(-self.r * dt)
discount(o) == Exp(Mul(-o.r, dt(o)))

\* self.S * u**j * d**(n - j)
StockPrice(o, n, j) == Mul(Mul(o.S, Pow(u(o), j)), Pow(d(o), n - j))

\* The statements before the lattice raise ZeroDivisionError: dt divides by
\* num_steps, p divides by u - d.
DividesByZero(o) == num_steps(o) = 0 \/ u(o) = d(o)

\* p * v[j] + (1 - p) * v[j + 1], discounted
Continuation(o, v, j) ==
    Mul(Mul(v[j], p(o)) + Mul(v[j + 1], Scale - p(o)), discount(o))

\* call_values at expiration
AmericanCallOption_terminal(o) ==
    [j \in 0..num_steps(o) |-> Max(0, StockPrice(o, num_steps(o), j) - o.K)]

\* call_values of step n, from the list v of step n + 1
AmericanCallOption_layer(o, n, v) ==
    [j \in 0..n |-> Max(StockPrice(o, n, j) - o.K, Continuation(o, v, j))]

\* put_values at expiration
AmericanPutOption_terminal(o) ==
    [j \in 0..num_steps(o) |-> Max(0, o.K - StockPrice(o, num_steps(o), j))]

\* Mutant: the put's backward step without the early-exercise max.
AmericanPutOption_layer_no_exercise(o, n, v) ==
    [j \in 0..n |-> Continuation(o, v, j)]

\* put_values of step n, from the list v of step n + 1
AmericanPutOption_layer(o, n, v) ==
    [j \in 0..n |-> Max(o.K - StockPrice(o, n, j), Continuation(o, v, j))]

(***************************************************************************)
(* calculate_option_price as steps of the program.                         *)
(***************************************************************************)
\* The first result of each class is kept, to compare later calls with.
Record(cls, v) == IF cls \in DOMAIN results THEN results ELSE results @@ (cls :> v)

\* EuropeanCallOption / EuropeanPutOption .calculate_option_price()
EuropeanCalculate ==
    /\ pc = "calc"
    /\ obj.cls \in European
    /\ price' = IF obj.cls = "EuropeanCallOption"
                THEN EuropeanCallOption_calculate_option_price(obj)
                ELSE EuropeanPutOption_calculate_option_price(obj)
    /\ results' = Record(obj.cls, price')
    /\ calls' = calls + 1
    /\ pc' = "done"
    /\ UNCHANGED <<locals, entry, out, obj, constructed, lattice, error>>

\* Mutant: the pricer overwrites self.T with the step size.
AmericanStart_overwrites_T ==
    /\ pc = "calc"
    /\ obj.cls \in American
    /\ calls' = calls + 1
    /\ IF DividesByZero(obj)
       THEN /\ pc' = "error"
            /\ error' = "ZeroDivisionError"
            /\ UNCHANGED <<lattice, obj>>
       ELSE /\ values' = IF obj.cls = "AmericanCallOption"
                         THEN AmericanCallOption_terminal(obj)
                         ELSE AmericanPutOption_terminal(obj)
            /\ i' = num_steps(obj)
            /\ prev' = << >>
            /\ visited' = << >>
            /\ pc' = "loop"
            /\ obj' = [obj EXCEPT !.T = dt(obj)]
            /\ UNCHANGED error
    /\ UNCHANGED <<locals, entry, out, constructed, price, results>>

\* American calculate_option_price up to the list at expiration.
AmericanStart ==
    /\ pc = "calc"
    /\ obj.cls \in American
    /\ calls' = calls + 1
    /\ IF DividesByZero(obj)
       THEN /\ pc' = "error"
            /\ error' = "ZeroDivisionError"
            /\ UNCHANGED lattice
       ELSE /\ values' = IF obj.cls = "AmericanCallOption"
                         THEN AmericanCallOption_terminal(obj)
                         ELSE AmericanPutOption_terminal(obj)
            /\ i' = num_steps(obj)
            /\ prev' = << >>
            /\ visited' = << >>
            /\ pc' = "loop"
            /\ UNCHANGED error
    /\ UNCHANGED <<locals, entry, out, obj, constructed, price, results>>

RECURSIVE InPlace(_, _, _, _)
\* The list v after nodes j, j - 1, ..., 0 of step n were overwritten in it,
\* one after the other.
InPlace(o, n, v, j) ==
    IF j < 0 THEN [k \in 0..n |-> v[k]]
    ELSE LET exercise == IF o.cls = "AmericanCallOption"
                         THEN StockPrice(o, n, j) - o.K
                         ELSE o.K - StockPrice(o, n, j)
         IN  InPlace(o, n, [v EXCEPT ![j] = Max(exercise, Continuation(o, v, j))], j - 1)

\* Mutant: the iteration overwrites the list in place, from the last node
\* down, so that node j reads the new value of node j + 1.
AmericanStep_in_place ==
    /\ pc = "loop"
    /\ i > 0
    /\ i' = i - 1
    /\ visited' = Append(visited, i - 1)
    /\ prev' = values
    /\ values' = InPlace(obj, i - 1, values, i - 1)
    /\ UNCHANGED <<pc, locals, entry, out, obj, constructed, calls, price, results, error>>

\* One iteration of "for i in range(num_steps - 1, -1, -1)".
AmericanStep ==
    /\ pc = "loop"
    /\ i > 0
    /\ i' = i - 1
    /\ visited' = Append(visited, i - 1)
    /\ prev' = values
    /\ values' = IF obj.cls = "AmericanCallOption"
                 THEN AmericanCallOption_layer(obj, i - 1, values)
                 ELSE AmericanPutOption_layer(obj, i - 1, values)
    /\ UNCHANGED <<pc, locals, entry, out, obj, constructed, calls, price, results, error>>

\* The range is exhausted: return call_values[0] / put_values[0].
AmericanReturn ==
    /\ pc = "loop"
    /\ i = 0
    /\ price' = values[0]
    /\ results' = Record(obj.cls, price')
    /\ pc' = "done"
    /\ UNCHANGED <<locals, entry, out, obj, constructed, calls, lattice, error>>

Calculate == EuropeanCalculate \/ AmericanStart \/ AmericanStep \/ AmericanReturn

(***************************************************************************)
(* get_user_input.  A typed line is a number float() accepts or a text it  *)
(* rejects with ValueError.                                                *)
(***************************************************************************)
Number(v) == [kind |-> "number", val |-> v, text |-> ""]

Text(t) == [kind |-> "text", val |-> 0, text |-> t]

NoEntry == [kind |-> "none", val |-> 0, text |-> ""]

\* str.lower() on the selector letters
lower(t) ==
    CASE t = "E" -> "e"
      [] t = "A" -> "a"
      [] t = "C" -> "c"
      [] t = "P" -> "p"
      [] OTHER   -> t

\* Lines the user may type at a numeric prompt and at a selector prompt.
PriceEntries == {Number(10 * Scale), Number(0), Number(-Scale), Text("abc")}

StrikeEntries == {Number(99900), Number(11 * Scale), Number(0), Text("abc")}

TimeEntries ==
    {Number(40 * n) : n \in 1..MaxSteps} \cup {Number(30), Number(0), Text("abc")}

RateEntries == {Number(0), Number(500), Text("abc")}

YieldEntries == {Number(Scale), Number(200), Number(0), Text("abc")}

SigmaEntries == {Number(1000), Number(-1000), Text("abc")}

SelectorEntries == {Text(t) : t \in {"E", "e", "a", "c", "P", "p", "x"}}

\* The body of a "while True" block of a field that must be positive: pc'
\* and out' after the line e; the caller binds the variable.
PositiveBlock(e, here, next) ==
    /\ entry' = e
    /\ IF e.kind = "number"
       THEN IF e.val > 0
            THEN pc' = next /\ UNCHANGED out
            ELSE pc' = here /\ out' = "Invalid input. Please enter a positive number."
       ELSE pc' = here /\ out' = "Invalid input. Please enter a (positive) number."
    /\ UNCHANGED <<option_type, call_put, obj, constructed, calls, lattice, price,
                   results, error>>

\* float(input(...)) binds the name before the test "> 0".
Bound(e, name) == IF e.kind = "number" THEN assigned \cup {name} ELSE assigned

InputS(e) ==
    /\ pc = "S"
    /\ PositiveBlock(e, "S", "K")
    /\ S' = IF e.kind = "number" THEN e.val ELSE S
    /\ assigned' = Bound(e, "S")
    /\ UNCHANGED <<K, T, r, y, sigma>>

InputK(e) ==
    /\ pc = "K"
    /\ PositiveBlock(e, "K", "T")
    /\ K' = IF e.kind = "number" THEN e.val ELSE K
    /\ assigned' = Bound(e, "K")
    /\ UNCHANGED <<S, T, r, y, sigma>>

InputT(e) ==
    /\ pc = "T"
    /\ PositiveBlock(e, "T", "r")
    /\ T' = IF e.kind = "number" THEN e.val ELSE T
    /\ assigned' = Bound(e, "T")
    /\ UNCHANGED <<S, K, r, y, sigma>>

\* The risk-free rate: one try, no loop.
InputR(e) ==
    /\ pc = "r"
    /\ entry' = e
    /\ IF e.kind = "number"
       THEN r' = e.val /\ UNCHANGED out
       ELSE out' = "Invalid input. Please enter a number." /\ UNCHANGED r
    /\ assigned' = Bound(e, "r")
    /\ pc' = "y"
    /\ UNCHANGED <<S, K, T, y, sigma, option_type, call_put, obj, constructed, calls,
                   lattice, price, results, error>>

InputY(e) ==
    /\ pc = "y"
    /\ PositiveBlock(e, "y", "sigma")
    /\ y' = IF e.kind = "number" THEN e.val ELSE y
    /\ assigned' = Bound(e, "y")
    /\ UNCHANGED <<S, K, T, r, sigma>>

InputSigma(e) ==
    /\ pc = "sigma"
    /\ PositiveBlock(e, "sigma", "option_type")
    /\ sigma' = IF e.kind = "number" THEN e.val ELSE sigma
    /\ assigned' = Bound(e, "sigma")
    /\ UNCHANGED <<S, K, T, r, y>>

InputOptionType(e) ==
    /\ pc = "option_type"
    /\ entry' = e
    /\ option_type' = lower(e.text)
    /\ IF option_type' \in {"e", "a"}
       THEN pc' = "call_put" /\ UNCHANGED out
       ELSE /\ pc' = "option_type"
            /\ out' = "Invalid input. Please enter 'E' for European or 'A' for American."
    /\ UNCHANGED <<S, K, T, r, y, sigma, assigned, call_put, obj, constructed, calls,
                   lattice, price, results, error>>

InputCallPut(e) ==
    /\ pc = "call_put"
    /\ entry' = e
    /\ call_put' = lower(e.text)
    /\ IF call_put' \in {"c", "p"}
       THEN pc' = "return" /\ UNCHANGED out
       ELSE /\ pc' = "call_put"
            /\ out' = "Invalid input. Please enter 'C' for Call or 'P' for Put."
    /\ UNCHANGED <<S, K, T, r, y, sigma, assigned, option_type, obj, constructed, calls,
                   lattice, price, results, error>>

\* return S, K, T, r, y, sigma, option_type, call_put: reading an unbound
\* local raises UnboundLocalError.
Return ==
    /\ pc = "return"
    /\ entry' = NoEntry
    /\ IF {"S", "K", "T", "r", "y", "sigma"} \subseteq assigned
       THEN pc' = "dispatch" /\ UNCHANGED error
       ELSE pc' = "error" /\ error' = "UnboundLocalError"
    /\ UNCHANGED <<locals, out, obj, constructed, calls, lattice, price, results>>

get_user_input ==
    \/ \E e \in PriceEntries : InputS(e)
    \/ \E e \in StrikeEntries : InputK(e)
    \/ \E e \in TimeEntries : InputT(e)
    \/ \E e \in RateEntries : InputR(e)
    \/ \E e \in YieldEntries : InputY(e)
    \/ \E e \in SigmaEntries : InputSigma(e)
    \/ \E e \in SelectorEntries : InputOptionType(e)
    \/ \E e \in SelectorEntries : InputCallPut(e)
    \/ Return

(***************************************************************************)
(* main.                                                                   *)
(***************************************************************************)
\* Mutant: the chain without its European put branch.
Dispatch_without_european_put(ot, cp) ==
    IF ot = "e" /\ cp = "c" THEN "EuropeanCallOption"
    ELSE IF ot = "a" /\ cp = "c" THEN "AmericanCallOption"
    ELSE "AmericanPutOption"

\* The if / elif / elif / else chain of main: the class it constructs.
Dispatch(ot, cp) ==
    IF ot = "e" /\ cp = "c" THEN "EuropeanCallOption"
    ELSE IF ot = "e" /\ cp = "p" THEN "EuropeanPutOption"
    ELSE IF ot = "a" /\ cp = "c" THEN "AmericanCallOption"
    ELSE "AmericanPutOption"

\* The label main prints with the price of a class.
Label(cls) ==
    CASE cls = "EuropeanCallOption" -> "European Call Option Price"
      [] cls = "EuropeanPutOption"  -> "European Put Option Price"
      [] cls = "AmericanCallOption" -> "American Call Option Price"
      [] OTHER                      -> "American Put Option Price"

\* The branch main takes constructs its pricer.
MainDispatch ==
    /\ pc = "dispatch"
    /\ obj' = Option(Dispatch(option_type, call_put), S, K, T, r, y, sigma)
    /\ constructed' = constructed + 1
    /\ pc' = "calc"
    /\ UNCHANGED <<locals, entry, out, calls, lattice, price, results, error>>

\* print(f"... Option Price: {price:.4f}")
MainPrint ==
    /\ pc = "done"
    /\ out' = Label(obj.cls)
    /\ pc' = "exit"
    /\ UNCHANGED <<locals, entry, obj, constructed, calls, lattice, price, results, error>>

main == get_user_input \/ MainDispatch \/ Calculate \/ MainPrint

(***************************************************************************)
(* Spec: the program, from the first prompt to the printed price.          *)
(***************************************************************************)
InitRest ==
    /\ entry = NoEntry
    /\ out = "European or American Option pricing"
    /\ obj = NoObject
    /\ constructed = 0
    /\ calls = 0
    /\ i = 0
    /\ values = << >>
    /\ prev = << >>
    /\ visited = << >>
    /\ price = 0
    /\ results = << >>
    /\ error = "none"

Init ==
    /\ pc = "S"
    /\ S = 0 /\ K = 0 /\ T = 0 /\ r = 0 /\ y = 0 /\ sigma = 0
    /\ assigned = {}
    /\ option_type = "" /\ call_put = ""
    /\ InitRest

Next == main

Spec == Init /\ [][Next]_vars

(***************************************************************************)
(* SpecCore: the pricer classes by themselves.  A caller holds one valid   *)
(* parameter set, constructs pricers from it and calls                     *)
(* calculate_option_price on them, up to MaxCalls times.                   *)
(***************************************************************************)
CoreS == {10 * Scale}

CoreK == {99900, 10 * Scale, 11 * Scale}

CoreT == {40 * n : n \in 1..MaxSteps} \cup {30, 60}

CoreR == {-100, 0, 500}

CoreY == {200, Scale}

CoreSigma == {1000, 2000}

InitCore ==
    /\ pc = "idle"
    /\ S \in CoreS /\ K \in CoreK /\ T \in CoreT
    /\ r \in CoreR /\ y \in CoreY /\ sigma \in CoreSigma
    /\ assigned = {"S", "K", "T", "r", "y", "sigma"}
    /\ option_type = "" /\ call_put = ""
    /\ InitRest

\* cls(S, K, T, r, y, sigma)
Construct(cls) ==
    /\ pc \in {"idle", "done"}
    /\ calls < MaxCalls
    /\ obj' = Option(cls, S, K, T, r, y, sigma)
    /\ constructed' = constructed + 1
    /\ pc' = "calc"
    /\ UNCHANGED <<locals, entry, out, calls, lattice, price, results, error>>

\* A further calculate_option_price() on the object at hand.
CallAgain ==
    /\ pc = "done"
    /\ calls < MaxCalls
    /\ pc' = "calc"
    /\ UNCHANGED <<locals, entry, out, obj, constructed, calls, lattice, price,
                   results, error>>

NextCore == (\E cls \in Classes : Construct(cls)) \/ CallAgain \/ Calculate

SpecCore == InitCore /\ [][NextCore]_vars

(***************************************************************************)
(* SpecDispatch: main from its dispatch on, with the selectors handed over *)
(* by an arbitrary input layer.                                            *)
(***************************************************************************)
InitDispatch ==
    /\ pc = "dispatch"
    /\ S \in CoreS /\ K \in CoreK /\ T \in CoreT
    /\ r \in CoreR /\ y \in CoreY /\ sigma \in CoreSigma
    /\ assigned = {"S", "K", "T", "r", "y", "sigma"}
    /\ option_type \in {"e", "a", "x"}
    /\ call_put \in {"c", "p", "x"}
    /\ InitRest

NextDispatch == MainDispatch \/ Calculate \/ MainPrint

SpecDispatch == InitDispatch /\ [][NextDispatch]_vars

(***************************************************************************)
(* Properties.                                                             *)
(***************************************************************************)
ValidPair == option_type \in {"e", "a"} /\ call_put \in {"c", "p"}

\* An American pricer is past its initialisation: its list is in place.
InLattice == obj.cls \in American /\ pc \in {"loop", "done", "exit"}

\* Immediate exercise value at node (n, j), by the kind of the pricer.
Intrinsic(o, n, j) ==
    IF o.cls = "AmericanCallOption" THEN StockPrice(o, n, j) - o.K
                                    ELSE o.K - StockPrice(o, n, j)

MustReject(field, e) ==
    \/ e.kind # "number"
    \/ field \in {"S", "K", "T", "y", "sigma"} /\ e.val <= 0

\* C2: at each of the six numeric prompts a non-numeric line (and, for S, K,
\* T, y, sigma, a non-positive one) makes the same field be prompted again,
\* and get_user_input hands over to main only with all six names bound.
C2_RejectedEntryPromptsAgain ==
    [][/\ (pc \in {"S", "K", "T", "r", "y", "sigma"} /\ MustReject(pc, entry'))
           => pc' = pc
       /\ pc' = "dispatch"
           => assigned' = {"S", "K", "T", "r", "y", "sigma"}]_vars

\* C3: an American pricer is only ever constructed with a T for which
\* int(T * 252) >= 1, so dt = T / num_steps never divides by zero.
C3_AmericanHasAStep ==
    obj.cls \in American => (num_steps(obj) >= 1 /\ error # "ZeroDivisionError")

\* C4: the price an American pricer returns is never negative.
C4_AmericanPriceNonNegative ==
    (obj.cls \in American /\ pc = "done") => price >= 0

\* C5: main constructs exactly one pricer, of the class matching the pair
\* (option_type, call_put), with the six values read from the user in the
\* order S, K, T, r, y, sigma, and calls it exactly once.
C5_DispatchRoutes ==
    /\ constructed <= 1
    /\ calls <= constructed
    /\ pc \in {"calc", "loop", "done", "exit"} =>
          /\ constructed = 1
          /\ ValidPair
          /\ (option_type = "e" /\ call_put = "c") => obj.cls = "EuropeanCallOption"
          /\ (option_type = "e" /\ call_put = "p") => obj.cls = "EuropeanPutOption"
          /\ (option_type = "a" /\ call_put = "c") => obj.cls = "AmericanCallOption"
          /\ (option_type = "a" /\ call_put = "p") => obj.cls = "AmericanPutOption"
          /\ obj.S = S /\ obj.K = K /\ obj.T = T
          /\ obj.r = r /\ obj.y = y /\ obj.sigma = sigma
    /\ pc \in {"done", "exit"} => calls = 1

\* A request went through main to the printed price of an American call,
\* with six distinct parameter values.
C5_Witness ==
    /\ pc = "exit"
    /\ obj.cls = "AmericanCallOption"
    /\ out = "American Call Option Price"
    /\ Cardinality({S, K, T, r, y, sigma}) = 6

C7_Idempotent ==
    /\ obj # NoObject => Fields(obj) = <<S, K, T, r, y, sigma>>
    /\ pc = "done" => (obj.cls \in DOMAIN results /\ price = results[obj.cls])

\* A second call on an American pricer of at least two steps has returned.
C7_Witness ==
    /\ pc = "done"
    /\ calls = 2
    /\ obj.cls \in American
    /\ num_steps(obj) >= 2
    /\ price # 0

\* C8: the list at expiration has num_steps + 1 nodes; the loop variable
\* takes num_steps - 1, ..., 0 in this order; after the iteration for step i
\* the list has i + 1 nodes, each computed from nodes j and j + 1 of the
\* whole list of step i + 1; i stays within 0..num_steps, where an iteration
\* (i > 0) or the return (i = 0) is the next step, and the price returned is
\* node 0 of the one-node list.
C8_LatticeShape ==
    InLattice =>
        LET N == num_steps(obj) IN
        /\ N >= 1
        /\ i \in 0..N
        /\ DOMAIN values = 0..i
        /\ visited = [k \in 1..(N - i) |-> N - k]
        /\ i < N =>
              /\ DOMAIN prev = 0..(i + 1)
              /\ \A j \in 0..i :
                    values[j] = Max(Intrinsic(obj, i, j), Continuation(obj, prev, j))
        /\ pc # "loop" => (i = 0 /\ Len(visited) = N /\ price = values[0])

\* A lattice of the largest depth was folded down to its root.
C8_Witness ==
    /\ InLattice
    /\ pc = "done"
    /\ num_steps(obj) = MaxSteps
    /\ Len(visited) = MaxSteps
    /\ prev[0] # prev[1]

\* C9: below expiration every node holds the larger of its discounted
\* continuation value and its immediate exercise value, so no node, and not
\* the returned price, is below immediate exercise (S - K, K - S at the root).
C9_EarlyExercise ==
    InLattice =>
        /\ i < num_steps(obj) =>
              \A j \in 0..i :
                /\ values[j] >= Intrinsic(obj, i, j)
                /\ values[j] >= Continuation(obj, prev, j)
                /\ values[j] \in {Intrinsic(obj, i, j), Continuation(obj, prev, j)}
        /\ pc = "done" =>
              price >= (IF obj.cls = "AmericanCallOption" THEN obj.S - obj.K
                                                          ELSE obj.K - obj.S)

\* A returned price that is the immediate exercise value, above the
\* continuation value at the root.
C9_Witness ==
    /\ InLattice
    /\ pc = "done"
    /\ price = Intrinsic(obj, 0, 0)
    /\ price > Continuation(obj, prev, 0)
    /\ price > 0

\* C10: the continuation value at node (i, j) weights the up successor, node
\* j + 1 of step i + 1, with p and the down successor, node j, with 1 - p.
C10_UpMoveWeightedByP ==
    (InLattice /\ i < num_steps(obj)) =>
        \A j \in 0..i :
            values[j] = Max(Intrinsic(obj, i, j),
                            Mul(Mul(prev[j + 1], p(obj)) + Mul(prev[j], Scale - p(obj)),
                                discount(obj)))

====
